---- MODULE Spec2Model ----
(***************************************************************************)
(* Model of rtls-ctl's scanner (src/src/main.rs, src/src/types.rs).        *)
(*                                                                         *)
(* main() walks RangeWrapper{start,end}, maps every address to the future  *)
(* filter_addr(ip), drives at most args.concurrency of them at once with   *)
(* buffer_unordered, keeps the Ok results (filter_map) and collects them   *)
(* in a Vec.  filter_addr first awaits filter_addr_tcp and then selects    *)
(* over filter_addr_g1, filter_addr_mg3 (errors mapped to pending()) and a *)
(* sleep(TIMEOUT).                                                         *)
(*                                                                         *)
(* Addresses are modelled by their u32 value.  One action is one poll of   *)
(* the main task that is woken by one readiness event (a connect result,   *)
(* a HTTP response, a timer), including everything that poll does.         *)
(***************************************************************************)
EXTENDS Integers, Sequences, FiniteSets, TLC

\* ---------------------------------------------------------------- bounds
\* addresses are 0..MaxAddr (u32 values of the Ipv4Addr bounds)
MaxAddr == 3
\* args.concurrency ranges over 1..MaxN
MaxN == 2

\* the scans of RaceSpec walk at most RaceLen addresses
RaceLen == 2

Addrs == 0..MaxAddr

VARIABLES
    start,        \* RangeWrapper.start (u32 value)
    end,          \* RangeWrapper.end (u32 value)
    concurrency,  \* args.concurrency
    range,        \* RangeWrapperIter.range : Range<u32>, [start, end]
    yielded,      \* history: the addresses RangeWrapperIter::next has produced
    in_progress,  \* BufferUnordered.in_progress_queue (addresses of the futures)
    pc,           \* position of the future filter_addr(ip)
    conn,         \* outcome of filter_addr_tcp(ip)
    g1,           \* state of the select branch filter_addr_g1(ip)
    mg3,          \* state of the select branch filter_addr_mg3(ip)
    sleep,        \* state of the select branch sleep(TIMEOUT)
    ret,          \* value returned by filter_addr(ip)
    results,      \* the Vec<GatewayDetection> being collected
    main_pc,      \* position of main
    exit,         \* value returned by main
    attempts,     \* history: how often filter_addr_tcp(ip) was started
    instances,    \* history: how often each protocol probe of ip was started
    call,         \* a direct call of a function: its name and arguments
    out           \* the value the call returned

vars == <<start, end, concurrency, range, yielded, in_progress, pc, conn,
          g1, mg3, sleep, ret, results, main_pc, exit, attempts, instances,
          call, out>>

\* ---------------------------------------------------------------- types.rs
HexDigits == <<"0","1","2","3","4","5","6","7","8","9","a","b","c","d","e","f">>
HexUpper  == <<"0","1","2","3","4","5","6","7","8","9","A","B","C","D","E","F">>

\* the characters that occur in the modelled strings
Chars == {HexDigits[i] : i \in 1..16} \cup {HexUpper[i] : i \in 1..16}
            \cup {":", "z", "g", "-", " "}

\* hex::val as a table: the value of one hexadecimal character, -1 when the
\* character is none
HexTable ==
    [c \in Chars |->
        IF \E i \in 1..16 : HexDigits[i] = c
        THEN (CHOOSE i \in 1..16 : HexDigits[i] = c) - 1
        ELSE IF \E i \in 1..16 : HexUpper[i] = c
        THEN (CHOOSE i \in 1..16 : HexUpper[i] = c) - 1
        ELSE -1]

HexVal(c) == HexTable[c]

\* variant: the separators are left in the text
RemoveColonsNot(s) == s

\* s.replace(':', "")
RECURSIVE RemoveColons(_)
RemoveColons(s) ==
    IF s = <<>> THEN <<>>
    ELSE IF Head(s) = ":" THEN RemoveColons(Tail(s))
    ELSE <<Head(s)>> \o RemoveColons(Tail(s))

\* hex::decode_to_slice(data, &mut [0u8; 6])
DecodeToSlice(data) ==
    IF Len(data) % 2 # 0 THEN [ok |-> FALSE, bytes |-> <<>>]
    ELSE IF Len(data) \div 2 # 6 THEN [ok |-> FALSE, bytes |-> <<>>]
    ELSE IF \E i \in 1..12 : HexVal(data[i]) = -1 THEN [ok |-> FALSE, bytes |-> <<>>]
    ELSE [ok |-> TRUE,
          bytes |-> [i \in 1..6 |-> HexVal(data[2*i - 1]) * 16 + HexVal(data[2*i])]]

\* Mac::from_str
Mac_from_str(s) == DecodeToSlice(RemoveColons(s))

\* hex::encode_upper(&self.bytes)
RECURSIVE encode_upper(_)
encode_upper(bytes) ==
    IF bytes = <<>> THEN <<>>
    ELSE <<HexUpper[(Head(bytes) \div 16) + 1], HexUpper[(Head(bytes) % 16) + 1]>>
         \o encode_upper(Tail(bytes))

\* the loop of Mac::fmt from character idx (0-based) on: push the character
\* and, after every odd idx, a ':'
RECURSIVE PushChars(_, _)
PushChars(encoded, idx) ==
    IF idx >= Len(encoded) THEN <<>>
    ELSE (IF idx % 2 # 0 THEN <<encoded[idx + 1], ":">> ELSE <<encoded[idx + 1]>>)
         \o PushChars(encoded, idx + 1)

\* String::pop
Pop(str) == IF str = <<>> THEN <<>> ELSE SubSeq(str, 1, Len(str) - 1)

\* variant: the trailing ':' is not removed
Mac_fmt_NoPop(bytes) == PushChars(encode_upper(bytes), 0)

\* <Mac as Display>::fmt
Mac_fmt(bytes) == Pop(PushChars(encode_upper(bytes), 0))

\* GatewayDetection { ip, gateway, mac }
GatewayDetection(ip, gateway, mac) == [ip |-> ip, gateway |-> gateway, mac |-> mac]

NoDetection == [ip |-> -1, gateway |-> "none", mac |-> <<>>]

\* anyhow::Result<GatewayDetection>
Ok(d) == [tag |-> "Ok", det |-> d, err |-> ""]
Err(msg) == [tag |-> "Err", det |-> NoDetection, err |-> msg]
\* the future has not returned
NotReturned == [tag |-> "None", det |-> NoDetection, err |-> ""]

\* ---------------------------------------------------------------- responses
\* a JSON field holding a MAC: absent, not a string, or a string
Absent == [t |-> "absent", s |-> <<>>]
NonString == [t |-> "number", s |-> <<>>]
Str(s) == [t |-> "string", s |-> s]

MacLower == <<"a","a","b","b","c","c","d","d","e","e","f","f">>
MacColons == <<"A","A",":","B","B",":","C","C",":","D","D",":","E","E",":","F","f">>
MacShort == <<"a","a","b","b">>
MacNotHex == <<"z","z","b","b","c","c","d","d","e","e","f","f">>

MacFields == {Absent, NonString, Str(MacLower), Str(MacColons), Str(MacShort), Str(MacNotHex)}

\* what the HTTP exchange of a probe can end with: a transport error, a body
\* that is no JSON, or a JSON value, of which the probes read header.code
\* and the MAC field at their path
NoJson ==
    {[kind |-> "neterr", code |-> "absent", mac |-> Absent],
     [kind |-> "badjson", code |-> "absent", mac |-> Absent]}

\* answers to POST /cgi-bin/cgic-statusget
G1Responses ==
    NoJson \cup [kind : {"json"}, code : {"absent", "int200", "int404", "str200"},
                 mac : MacFields]

\* answers to GET /hello (filter_addr_mg3 reads no header.code)
Mg3Responses == NoJson \cup [kind : {"json"}, code : {"absent"}, mac : MacFields]

\* ---------------------------------------------------------------- calls
\* byte values of the Mac values that are formatted
ByteSamples == {0, 10, 171, 255}

\* Mac { bytes: [u8; 6] }
MacValues == [1..6 -> ByteSamples]

\* texts handed to Mac::from_str
MacStrings ==
    {MacLower, MacColons, MacShort, MacNotHex,
     <<"A","A","B","B","C","C","D","D","E","E","F","F">>,
     <<"a","a",":","b","b",":","c","c",":","d","d",":","e","e",":","f","f">>,
     <<":","a",":","a","b","b","c","c","d","d","e","e","f","f",":",":">>,
     <<"0","1","2","3","4","5","6","7","8","9","a","b">>,
     <<"0","1",":","2","3",":","4","5",":","6","7",":","8","9",":","A","B">>,
     <<"a","a","b","b","c","c","d","d","e","e">>,
     <<"a","a","b","b","c","c","d","d","e","e","f">>,
     <<"a","a","b","b","c","c","d","d","e","e","f","f","0","0">>,
     <<"a","a","b","b","c","c","d","d","e","e","f","g">>,
     <<"a","a","-","b","b","-","c","c","-","d","d","-","e","e","-","f","f">>,
     <<"a","a","b","b","c","c","d","d","e","e","f"," ">>,
     <<":",":">>,
     <<>>}

NoCall == [fn |-> "none", ip |-> 0, resp |-> [kind |-> "neterr", code |-> "absent", mac |-> Absent],
           x |-> <<>>, s |-> <<>>, t |-> <<>>]

\* the calls made directly: a probe on an address with a response, the
\* formatting of a Mac followed by the parsing of the text, and the parsing
\* of two texts
Calls ==
    {[NoCall EXCEPT !.fn = "filter_addr_g1", !.ip = a, !.resp = r] :
        a \in Addrs, r \in G1Responses}
    \cup {[NoCall EXCEPT !.fn = "filter_addr_mg3", !.ip = a, !.resp = r] :
        a \in Addrs, r \in Mg3Responses}
    \cup {[NoCall EXCEPT !.fn = "fmt", !.x = x] : x \in MacValues}
    \cup {[NoCall EXCEPT !.fn = "from_str", !.s = s, !.t = t] :
        s \in MacStrings, t \in MacStrings}

NoParse == [ok |-> FALSE, bytes |-> <<>>]

NoOut == [done |-> FALSE, res |-> NotReturned, text |-> <<>>, mac |-> NoParse,
          mac2 |-> NoParse]

\* ---------------------------------------------------------------- main.rs
\* variant: the iterator runs until the cursor equals the upper bound
RangeHasNextNotEqual(r) == r.start # r.end

\* variant: an inclusive upper bound (RangeInclusive)
RangeHasNextInclusive(r) == r.start <= r.end

\* Range<u32>::next as called by RangeWrapperIter::next: is there an item
RangeHasNext(r) == r.start < r.end

\* Range<u32>::next: the iterator after the item r.start was taken
RangeNext(r) == [r EXCEPT !.start = r.start + 1]

\* RangeWrapper::into_iter
into_iter(s, e) == [start |-> s, end |-> e]

\* variant: the queue is filled while len() < max - 1
CanAdmitOneLess(q) == Cardinality(q) < concurrency - 1

\* variant: the queue is filled while len() <= max
CanAdmitOneMore(q) == Cardinality(q) <= concurrency

\* BufferUnordered::poll_next: while in_progress_queue.len() < max
CanAdmit(q) == Cardinality(q) < concurrency

\* variant: one poll pulls at most one future (if instead of while)
FillOnce(q, r, y) ==
    IF CanAdmit(q) /\ RangeHasNext(r)
    THEN [q |-> q \cup {r.start}, r |-> RangeNext(r), y |-> Append(y, r.start)]
    ELSE [q |-> q, r |-> r, y |-> y]

\* BufferUnordered::poll_next, the filling loop: pulls futures from the
\* mapped stream until the queue is full or the stream has ended
RECURSIVE Fill(_, _, _)
Fill(q, r, y) ==
    IF CanAdmit(q) /\ RangeHasNext(r)
    THEN Fill(q \cup {r.start}, RangeNext(r), Append(y, r.start))
    ELSE [q |-> q, r |-> r, y |-> y]

\* variant: the or_else of line 134 is missing, an Err of the probe is ready
G1BranchNoOrElse(res) == [ready |-> TRUE, res |-> res]

\* select branch of line 134, filter_addr_g1(ip).or_else(|_| pending()):
\* ready with the probe's value only when the probe returned Ok
G1Branch(res) ==
    IF res.tag = "Ok" THEN [ready |-> TRUE, res |-> res]
    ELSE [ready |-> FALSE, res |-> res]

\* variant: line 137 maps every result of the probe to pending()
Mg3BranchNever(res) == [ready |-> FALSE, res |-> res]

\* variant: the or_else of line 137 is missing, an Err of the probe is ready
Mg3BranchNoOrElse(res) == [ready |-> TRUE, res |-> res]

\* select branch of line 137, filter_addr_mg3(ip).or_else(|_| pending())
Mg3Branch(res) ==
    IF res.tag = "Ok" THEN [ready |-> TRUE, res |-> res]
    ELSE [ready |-> FALSE, res |-> res]

\* variant: a probe that returned Err is started again
CompletedRetry(res) == IF res.tag = "Ok" THEN "succeeded" ELSE "running"

\* state of a probe future that returned res
Completed(res) == IF res.tag = "Ok" THEN "succeeded" ELSE "failed"

\* variant: the result of filter_addr_tcp is ignored (no `?`)
ProceedsAlways(c) == TRUE

\* the number of started instances of a future after it took state s
CountStart(n, s) == IF s = "running" THEN n + 1 ELSE n

\* filter_addr, lines 128-131: `.ok().context(..)?` lets the pipeline go on
\* to the select only when the connect outcome c is a connection
Proceeds(c) == c = "connected"

\* variant: header.code is not looked at
filter_addr_g1_AnyCode(ip, r) ==
    IF r.kind # "json" THEN Err("g1: request or json error")
    ELSE IF r.mac.t # "string" THEN Err("Error parsing mac address from response")
    ELSE LET m == Mac_from_str(r.mac.s)
         IN IF m.ok THEN Ok(GatewayDetection(ip, "G1", m.bytes))
            ELSE Err("g1: FromHexError")

\* filter_addr_g1: the result of the probe for a received response
filter_addr_g1(ip, r) ==
    IF r.kind # "json" THEN Err("g1: request or json error")
    ELSE IF r.code = "int200"
    THEN IF r.mac.t # "string" THEN Err("Error parsing mac address from response")
         ELSE LET m == Mac_from_str(r.mac.s)
              IN IF m.ok THEN Ok(GatewayDetection(ip, "G1", m.bytes))
                 ELSE Err("g1: FromHexError")
    ELSE Err("Error mac not found in response")

\* variant: the detection carries the tag of the other probe
filter_addr_mg3_TagG1(ip, r) ==
    IF r.kind # "json" THEN Err("mg3: request or json error")
    ELSE IF r.mac.t = "string"
    THEN LET m == Mac_from_str(r.mac.s)
         IN IF m.ok THEN Ok(GatewayDetection(ip, "G1", m.bytes))
            ELSE Err("Error parsing mac address from response")
    ELSE Err("Error mac not found in response")

\* filter_addr_mg3: the result of the probe for a received response
filter_addr_mg3(ip, r) ==
    IF r.kind # "json" THEN Err("mg3: request or json error")
    ELSE IF r.mac.t = "string"
    THEN LET m == Mac_from_str(r.mac.s)
         IN IF m.ok THEN Ok(GatewayDetection(ip, "MG3", m.bytes))
            ELSE Err("Error parsing mac address from response")
    ELSE Err("Error mac not found in response")

\* filter_addr_tcp, line 147: the TcpStream is a temporary of the statement,
\* so the connection of address a is open only while the connect is awaited
\* variant: the stream is kept until filter_addr returns
TcpStreamHeld(p) == p \in {"tcp", "select"}

TcpStreamOpen(p) == p = "tcp"

\* variant: the branch futures outlive the select (spawned, not dropped)
DropNothing(s) == s

\* tokio::select! returned: the branch futures are dropped, which cancels
\* the ones still running
Drop(s) == IF s = "running" THEN "cancelled" ELSE s

\* variant: a new detection replaces the collected ones
CollectOverwrite(rs, res) == IF res.tag = "Ok" THEN <<res.det>> ELSE rs

\* variant: no filter, the value of every result is pushed
CollectAll(rs, res) == Append(rs, res.det)

\* .filter_map(|v| v.ok()) followed by collect's push
Collect(rs, res) == IF res.tag = "Ok" THEN Append(rs, res.det) ELSE rs

TimeoutMsg == "Timeout trying to get gateway response"
TcpMsg == "Error getting tcp connection"

\* nothing has been polled yet and no function has been called
Idle ==
    /\ range = into_iter(start, end)
    /\ yielded = <<>>
    /\ in_progress = {}
    /\ pc = [a \in Addrs |-> "pending"]
    /\ conn = [a \in Addrs |-> "none"]
    /\ g1 = [a \in Addrs |-> "unstarted"]
    /\ mg3 = [a \in Addrs |-> "unstarted"]
    /\ sleep = [a \in Addrs |-> "unstarted"]
    /\ ret = [a \in Addrs |-> NotReturned]
    /\ results = <<>>
    /\ main_pc = "start"
    /\ exit = "none"
    /\ attempts = [a \in Addrs |-> 0]
    /\ instances = [a \in Addrs |-> [g1 |-> 0, mg3 |-> 0]]
    /\ out = NoOut

Init ==
    /\ start \in Addrs
    /\ end \in Addrs
    /\ concurrency \in 1..MaxN
    /\ call = NoCall
    /\ Idle

\* one poll of buffer_unordered after the queue became q: fill it, start the
\* new futures (each begins with its TCP connect) and end the stream when
\* the queue is empty and the mapped stream is done
Refill(q, newpc) ==
    \E f \in {Fill(q, range, yielded)} :
       /\ in_progress' = f.q
       /\ range' = f.r
       /\ yielded' = f.y
       /\ pc' = [x \in Addrs |-> IF x \in f.q \ q THEN "tcp" ELSE newpc[x]]
       /\ attempts' = [x \in Addrs |-> IF x \in f.q \ q THEN attempts[x] + 1
                                        ELSE attempts[x]]
       /\ main_pc' = IF f.q = {} /\ ~RangeHasNext(f.r) THEN "print" ELSE "collect"

\* main reaches `.collect().await`: the first poll of the stream
StartScan ==
    /\ main_pc = "start"
    /\ Refill(in_progress, pc)
    /\ UNCHANGED <<call, out, start, end, concurrency, conn, g1, mg3, sleep, ret, results, exit,
                   instances>>

\* filter_addr(a) returns res: the future leaves the queue, its value goes
\* through filter_map into the Vec, and the stream is polled again
Return(a, res) ==
    /\ ret' = [ret EXCEPT ![a] = res]
    /\ results' = Collect(results, res)
    /\ Refill(in_progress \ {a}, [pc EXCEPT ![a] = "returned"])

\* timeout(TIMEOUT, TcpStream::connect((a, 80))) completes with outcome c.
\* On a connection the stream is dropped at once and filter_addr enters the
\* select, starting both probes and the timer; otherwise it returns Err.
TcpDone(a, c) ==
    /\ pc[a] = "tcp"
    /\ conn' = [conn EXCEPT ![a] = c]
    /\ IF Proceeds(c)
       THEN /\ pc' = [pc EXCEPT ![a] = "select"]
            /\ g1' = [g1 EXCEPT ![a] = "running"]
            /\ mg3' = [mg3 EXCEPT ![a] = "running"]
            /\ sleep' = [sleep EXCEPT ![a] = "running"]
            /\ instances' = [instances EXCEPT ![a] = [g1 |-> CountStart(@.g1, "running"),
                                                     mg3 |-> CountStart(@.mg3, "running")]]
            /\ UNCHANGED <<range, yielded, in_progress, ret, results, main_pc, attempts>>
       ELSE /\ Return(a, Err(TcpMsg))
            /\ UNCHANGED <<g1, mg3, sleep, instances>>
    /\ UNCHANGED <<call, out, start, end, concurrency, exit>>

\* the connect succeeded within TIMEOUT
TcpConnected(a) == TcpDone(a, "connected")

\* the connect failed (refused, host or network unreachable)
TcpRefused(a) == TcpDone(a, "refused")

\* TIMEOUT elapsed before the connect completed
TcpTimeout(a) == TcpDone(a, "elapsed")

\* the exchange of filter_addr_g1(a) ends with response r
G1Responds(a, r) ==
    /\ g1[a] = "running"
    /\ \E res \in {filter_addr_g1(a, r)} : \E b \in {G1Branch(res)} :
          /\ g1' = [g1 EXCEPT ![a] = Completed(res)]
          /\ instances' = [instances EXCEPT ![a].g1 = CountStart(@, Completed(res))]
          /\ IF b.ready
             THEN /\ mg3' = [mg3 EXCEPT ![a] = Drop(mg3[a])]
                  /\ sleep' = [sleep EXCEPT ![a] = Drop(sleep[a])]
                  /\ Return(a, b.res)
             ELSE UNCHANGED <<mg3, sleep, ret, results, in_progress, range,
                              yielded, pc, main_pc, attempts>>
    /\ UNCHANGED <<call, out, start, end, concurrency, conn, exit>>

\* the exchange of filter_addr_mg3(a) ends with response r
Mg3Responds(a, r) ==
    /\ mg3[a] = "running"
    /\ \E res \in {filter_addr_mg3(a, r)} : \E b \in {Mg3Branch(res)} :
          /\ mg3' = [mg3 EXCEPT ![a] = Completed(res)]
          /\ instances' = [instances EXCEPT ![a].mg3 = CountStart(@, Completed(res))]
          /\ IF b.ready
             THEN /\ g1' = [g1 EXCEPT ![a] = Drop(g1[a])]
                  /\ sleep' = [sleep EXCEPT ![a] = Drop(sleep[a])]
                  /\ Return(a, b.res)
             ELSE UNCHANGED <<g1, sleep, ret, results, in_progress, range,
                              yielded, pc, main_pc, attempts>>
    /\ UNCHANGED <<call, out, start, end, concurrency, conn, exit>>

\* sleep(TIMEOUT) elapsed while filter_addr(a) is in the select
Deadline(a) ==
    /\ sleep[a] = "running"
    /\ sleep' = [sleep EXCEPT ![a] = "elapsed"]
    /\ g1' = [g1 EXCEPT ![a] = Drop(g1[a])]
    /\ mg3' = [mg3 EXCEPT ![a] = Drop(mg3[a])]
    /\ Return(a, Err(TimeoutMsg))
    /\ UNCHANGED <<call, out, start, end, concurrency, conn, exit, instances>>

\* the stream ended: main logs, prints the results and returns Ok(())
Finish ==
    /\ main_pc = "print"
    /\ main_pc' = "done"
    /\ exit' = "Ok"
    /\ UNCHANGED <<call, out, start, end, concurrency, range, yielded, in_progress, pc,
                   conn, g1, mg3, sleep, ret, results, attempts, instances>>

\* the scan's variables, which a direct call leaves alone
scanvars == <<start, end, concurrency, range, yielded, in_progress, pc, conn,
              g1, mg3, sleep, ret, results, main_pc, exit, attempts, instances>>

\* filter_addr_g1(call.ip) is run on the response call.resp
CallG1 ==
    /\ call.fn = "filter_addr_g1" /\ ~out.done
    /\ out' = [out EXCEPT !.done = TRUE, !.res = filter_addr_g1(call.ip, call.resp)]
    /\ UNCHANGED <<scanvars, call>>

\* filter_addr_mg3(call.ip) is run on the response call.resp
CallMg3 ==
    /\ call.fn = "filter_addr_mg3" /\ ~out.done
    /\ out' = [out EXCEPT !.done = TRUE, !.res = filter_addr_mg3(call.ip, call.resp)]
    /\ UNCHANGED <<scanvars, call>>

\* Mac{bytes: call.x}.to_string() and Mac::from_str of that text
CallFmt ==
    /\ call.fn = "fmt" /\ ~out.done
    /\ \E text \in {Mac_fmt(call.x)} :
          out' = [out EXCEPT !.done = TRUE, !.text = text, !.mac = Mac_from_str(text)]
    /\ UNCHANGED <<scanvars, call>>

\* Mac::from_str(call.s) and Mac::from_str(call.t)
CallFromStr ==
    /\ call.fn = "from_str" /\ ~out.done
    /\ out' = [out EXCEPT !.done = TRUE, !.mac = Mac_from_str(call.s),
                          !.mac2 = Mac_from_str(call.t)]
    /\ UNCHANGED <<scanvars, call>>

Next ==
    \/ StartScan
    \/ \E a \in Addrs : TcpConnected(a)
    \/ \E a \in Addrs : TcpRefused(a)
    \/ \E a \in Addrs : TcpTimeout(a)
    \/ \E a \in Addrs : \E r \in G1Responses : G1Responds(a, r)
    \/ \E a \in Addrs : \E r \in Mg3Responses : Mg3Responds(a, r)
    \/ \E a \in Addrs : Deadline(a)
    \/ Finish

Spec == Init /\ [][Next]_vars

\* The timers of tokio (timeout(TIMEOUT, ..) and sleep(TIMEOUT)) fire, and
\* the runtime keeps polling main; nothing is assumed of the network.
FairSpec ==
    /\ Spec
    /\ WF_vars(StartScan)
    /\ WF_vars(Finish)
    /\ \A a \in Addrs : WF_vars(TcpTimeout(a))
    /\ \A a \in Addrs : WF_vars(Deadline(a))

\* direct calls of the probes and of the Mac conversions, one per behaviour
FnInit ==
    /\ start = 0
    /\ end = 0
    /\ concurrency = 1
    /\ call \in Calls
    /\ Idle

FnNext ==
    \/ CallG1
    \/ CallMg3
    \/ CallFmt
    \/ CallFromStr

FnSpec == FnInit /\ [][FnNext]_vars

\* the scans of short ranges, for the properties of the race of one address
RaceInit == Init /\ end - start <= RaceLen

RaceSpec == RaceInit /\ [][Next]_vars

\* the scans together with the direct calls
FullInit == Init \/ FnInit

FullNext == Next \/ FnNext

FullSpec == FullInit /\ [][FullNext]_vars

\* ---------------------------------------------------------------- properties
RECURSIVE Sum(_, _)
Sum(f, S) == IF S = {} THEN 0
             ELSE LET x == CHOOSE x \in S : TRUE IN f[x] + Sum(f, S \ {x})

\* addresses whose pipeline was admitted and has not completed
InFlight == {a \in Addrs : pc[a] \in {"tcp", "select"}}

\* open connections of address a: the connect and the running HTTP requests
Connections(a) ==
    (IF TcpStreamOpen(pc[a]) THEN 1 ELSE 0)
    + (IF g1[a] = "running" THEN 1 ELSE 0)
    + (IF mg3[a] = "running" THEN 1 ELSE 0)

OpenConnections == Sum([a \in Addrs |-> Connections(a)], Addrs)

\* the iterator has been driven to its end
Exhausted == main_pc # "start" /\ ~RangeHasNext(range)

\* C1: at every instant the number of admitted, not yet completed pipelines
\* is at most the concurrency limit N, for every N >= 1 and every range size.
C1_InFlightAtMostN == Cardinality(InFlight) <= concurrency

\* C1 witness: the limit is reached while addresses are still pending
C1_Witness ==
    /\ Cardinality(InFlight) = concurrency
    /\ concurrency >= 2
    /\ RangeHasNext(range)

\* C2 (as stated): the open connections (connects plus in-flight HTTP
\* requests of both probes, over all addresses) never exceed N.
C2_ConnectionsAtMostN == OpenConnections <= concurrency

\* C2 (amended): at most N connects are open, every in-flight address holds
\* at most two HTTP requests and never a connect together with a request,
\* and the open connections never exceed 2 * N.
C2_ConnectionsAtMost2N ==
    /\ OpenConnections <= 2 * concurrency
    /\ Cardinality({a \in Addrs : TcpStreamOpen(pc[a])}) <= concurrency
    /\ \A a \in Addrs : Connections(a) <= 2

\* C2 witness: every one of N in-flight addresses has both requests open
C2_Witness ==
    /\ OpenConnections = 2 * concurrency
    /\ concurrency >= 2

\* C3 (as stated): for start <= end the produced sequence has end-start+1
\* elements, is strictly ascending, begins with start and ends with end.
C3_InclusiveRange ==
    (start <= end /\ Exhausted) =>
        /\ Len(yielded) = end - start + 1
        /\ \A i \in 1..(Len(yielded) - 1) : yielded[i] < yielded[i + 1]
        /\ yielded[1] = start
        /\ yielded[Len(yielded)] = end

\* C3 (amended): for start <= end the produced sequence has end-start
\* elements, is strictly ascending (consecutive), and when start < end it
\* begins with start and ends with end - 1: the upper bound is excluded.
C3_HalfOpenRange ==
    start <= end =>
        /\ Len(yielded) <= end - start
        /\ \A i \in 1..Len(yielded) : yielded[i] = start + i - 1
        /\ \A i \in 1..Len(yielded) : yielded[i] # end
        /\ Exhausted =>
              /\ Len(yielded) = end - start
              /\ start < end => yielded[1] = start /\ yielded[Len(yielded)] = end - 1

\* C3 witness: a range of several addresses has been produced to its end
C3_Witness ==
    /\ Exhausted
    /\ start + 2 <= end
    /\ Len(yielded) = end - start

\* the state of the race of address a (the select of filter_addr)
RaceState(a) ==
    IF pc[a] = "select" THEN "Racing"
    ELSE IF pc[a] = "returned" /\ Proceeds(conn[a])
    THEN IF ret[a].tag = "Ok" THEN "Won"
         ELSE IF ret[a] = Err(TimeoutMsg) THEN "TimedOut"
         ELSE "Error"
    ELSE "NotStarted"

\* the detections collected for address a
DetectionsOf(a) == {i \in 1..Len(results) : results[i].ip = a}

\* C4: the failure of one protocol probe never resolves the race: after
\* the failure the race is still Racing with nothing returned, and when the
\* other probe then succeeds the race is Won with that probe's detection.
C4_FailureSuppressed ==
    [][\A a \in Addrs :
        /\ (g1[a] = "running" /\ g1'[a] = "failed") =>
              /\ RaceState(a)' = "Racing"
              /\ ret'[a] = NotReturned
              /\ a \in in_progress'
              /\ mg3'[a] = mg3[a] /\ sleep'[a] = sleep[a]
        /\ (mg3[a] = "running" /\ mg3'[a] = "failed") =>
              /\ RaceState(a)' = "Racing"
              /\ ret'[a] = NotReturned
              /\ a \in in_progress'
              /\ g1'[a] = g1[a] /\ sleep'[a] = sleep[a]
        /\ (g1[a] = "failed" /\ mg3[a] = "running" /\ mg3'[a] = "succeeded") =>
              /\ RaceState(a)' = "Won"
              /\ ret'[a].det.gateway = "MG3" /\ ret'[a].det.ip = a
              /\ results' = Append(results, ret'[a].det)
        /\ (mg3[a] = "failed" /\ g1[a] = "running" /\ g1'[a] = "succeeded") =>
              /\ RaceState(a)' = "Won"
              /\ ret'[a].det.gateway = "G1" /\ ret'[a].det.ip = a
              /\ results' = Append(results, ret'[a].det)
    ]_vars

\* C4 witness: Variant B failed, Variant A succeeded afterwards and won
C4_Witness ==
    \E a \in Addrs :
        /\ mg3[a] = "failed" /\ g1[a] = "succeeded"
        /\ RaceState(a) = "Won"
        /\ ret[a].det.gateway = "G1"

\* C5: when both probes have failed before the deadline the race stays
\* Racing until the deadline fires; it then is TimedOut and the address
\* has no detection.
C5_BothFailedThenTimedOut ==
    \A a \in Addrs :
        (g1[a] = "failed" /\ mg3[a] = "failed") =>
            \/ /\ RaceState(a) = "Racing"
               /\ sleep[a] = "running"
               /\ ret[a] = NotReturned
               /\ a \in in_progress
            \/ /\ RaceState(a) = "TimedOut"
               /\ sleep[a] = "elapsed"
               /\ DetectionsOf(a) = {}
               /\ a \notin in_progress

\* C5 witness: both probes failed and the deadline has resolved the race
C5_Witness ==
    \E a \in Addrs :
        /\ g1[a] = "failed" /\ mg3[a] = "failed"
        /\ RaceState(a) = "TimedOut"

\* C6: the race resolves once, to Won(d) or TimedOut, and finally: Won
\* carries the detection of the one probe that succeeded, collected once;
\* TimedOut has no successful probe and no detection; and no later step
\* changes the returned value or the detections of the address.
C6_ResolvesOnce ==
    /\ [](\A a \in Addrs :
            /\ RaceState(a) # "Error"
            /\ Cardinality(DetectionsOf(a)) <= 1
            /\ RaceState(a) = "Won" =>
                  /\ (g1[a] = "succeeded") # (mg3[a] = "succeeded")
                  /\ ret[a].det.ip = a
                  /\ ret[a].det.gateway = (IF g1[a] = "succeeded" THEN "G1" ELSE "MG3")
                  /\ \E i \in 1..Len(results) : results[i] = ret[a].det
            /\ RaceState(a) = "TimedOut" =>
                  /\ g1[a] # "succeeded" /\ mg3[a] # "succeeded"
                  /\ sleep[a] = "elapsed"
                  /\ DetectionsOf(a) = {})
    /\ [][\A a \in Addrs :
            pc[a] = "returned" =>
                /\ pc'[a] = "returned"
                /\ ret'[a] = ret[a]
                /\ {results'[i] : i \in DetectionsOf(a)'} = {results[i] : i \in DetectionsOf(a)}
        ]_vars

\* C6 witness: a race was won and a later step of the scan has been taken
C6_Witness ==
    \E a \in Addrs :
        /\ RaceState(a) = "Won"
        /\ \E b \in Addrs \ {a} : RaceState(b) = "TimedOut"
        /\ main_pc = "done"

\* C7: once the race of an address has resolved, none of its probes (nor
\* its timer) is still running: the loser of a won race and the outstanding
\* probes of a timed-out race are cancelled in the resolving step.
C7_NoProbeAfterResolution ==
    /\ [](\A a \in Addrs :
            RaceState(a) \in {"Won", "TimedOut", "Error"} =>
                /\ g1[a] # "running" /\ mg3[a] # "running" /\ sleep[a] # "running"
                /\ Connections(a) = 0)
    /\ [][\A a \in Addrs :
            (RaceState(a) = "Racing" /\ RaceState(a)' # "Racing") =>
                /\ g1[a] = "running" => g1'[a] \in {"succeeded", "cancelled"}
                /\ mg3[a] = "running" => mg3'[a] \in {"succeeded", "cancelled"}
        ]_vars

\* C7 witness: one race won with its loser cancelled, another timed out
\* with both probes cancelled
C7_Witness ==
    \E a, b \in Addrs :
        /\ RaceState(a) = "Won" /\ g1[a] = "succeeded" /\ mg3[a] = "cancelled"
        /\ RaceState(b) = "TimedOut" /\ g1[b] = "cancelled" /\ mg3[b] = "cancelled"

\* C8: the race of an address starts only after its connect succeeded; a
\* failed connect ends the pipeline at once with an Err, no detection, and
\* neither HTTP request is ever started for that address.
C8_ReachabilityGate ==
    /\ [](\A a \in Addrs :
            /\ (pc[a] = "select" \/ g1[a] # "unstarted" \/ mg3[a] # "unstarted"
                   \/ sleep[a] # "unstarted") => conn[a] = "connected"
            /\ conn[a] \in {"refused", "elapsed"} =>
                  /\ pc[a] = "returned"
                  /\ ret[a] = Err(TcpMsg)
                  /\ g1[a] = "unstarted" /\ mg3[a] = "unstarted"
                  /\ DetectionsOf(a) = {})
    /\ [][\A a \in Addrs :
            (pc[a] = "tcp" /\ conn'[a] \in {"refused", "elapsed"}) =>
                /\ pc'[a] = "returned"
                /\ a \notin in_progress'
        ]_vars

\* C8 witness: the scan is over, one address refused the connection and no
\* request was made to it, another was connected and raced
C8_Witness ==
    \E a, b \in Addrs :
        /\ conn[a] = "refused" /\ g1[a] = "unstarted" /\ mg3[a] = "unstarted"
        /\ conn[b] = "connected" /\ g1[b] # "unstarted" /\ mg3[b] # "unstarted"
        /\ main_pc = "done"

\* the addresses the range produces
RangeAddrs == {a \in Addrs : start <= a /\ a < end}

\* the detections returned by the pipelines that succeeded
Succeeded == {a \in Addrs : ret[a].tag = "Ok"}

\* C9: a failing address neither aborts the scan nor disturbs the others:
\* the collected results are always exactly the detections of the
\* pipelines that returned Ok; the stream ends only when every address of
\* the range was admitted and has returned; and a step in which an address
\* returns Err changes no other pipeline except by admitting a pending one.
C9_FailuresAreLocal ==
    /\ [](/\ {results[i] : i \in 1..Len(results)} = {ret[a].det : a \in Succeeded}
          /\ Len(results) = Cardinality(Succeeded)
          /\ main_pc \in {"print", "done"} =>
                /\ \A a \in RangeAddrs : pc[a] = "returned"
                /\ \A a \in RangeAddrs : \E i \in 1..Len(yielded) : yielded[i] = a
                /\ in_progress = {})
    /\ [][\A a \in Addrs :
            (ret[a] = NotReturned /\ ret'[a].tag = "Err") =>
                /\ results' = results
                /\ main_pc' = (IF \A b \in RangeAddrs : pc'[b] = "returned"
                               THEN "print" ELSE "collect")
                /\ \A b \in Addrs \ {a} :
                      /\ pc'[b] = pc[b] \/ (pc[b] = "pending" /\ pc'[b] = "tcp")
                      /\ g1'[b] = g1[b] /\ mg3'[b] = mg3[b] /\ sleep'[b] = sleep[b]
                      /\ ret'[b] = ret[b] /\ conn'[b] = conn[b]
        ]_vars

\* C9 witness: the scan is over with one address refused, one timed out in
\* the race and one detected
C9_Witness ==
    \E a, b, c \in RangeAddrs :
        /\ main_pc = "done"
        /\ conn[a] = "refused"
        /\ RaceState(b) = "TimedOut"
        /\ RaceState(c) = "Won"
        /\ Len(results) = 1

\* C10: under FairSpec every scan ends: main returns Ok(()), every address
\* of the range was admitted and its pipeline has returned, and nothing is
\* left in flight, whatever the network does.
C10_ScanCompletes ==
    <>[](/\ main_pc = "done"
         /\ exit = "Ok"
         /\ in_progress = {}
         /\ \A a \in RangeAddrs : pc[a] = "returned")

\* C10 witness: a scan ended normally with zero detections after a connect
\* that never completed, a race in which no probe ever answered and a race
\* in which both probes failed
C10_Witness ==
    \E a, b, c \in RangeAddrs :
        /\ main_pc = "done" /\ exit = "Ok" /\ results = <<>>
        /\ conn[a] = "elapsed"
        /\ RaceState(b) = "TimedOut" /\ g1[b] = "cancelled" /\ mg3[b] = "cancelled"
        /\ RaceState(c) = "TimedOut" /\ g1[c] = "failed" /\ mg3[c] = "failed"

\* C11: no probe is retried: every address gets at most one reachability
\* attempt and exactly one once admitted, so exactly one for every address
\* of the range when the scan is over; every address whose race started has
\* exactly one instance of each protocol probe, every other address none.
C11_NoRetry ==
    \A a \in Addrs :
        /\ attempts[a] = (IF pc[a] = "pending" THEN 0 ELSE 1)
        /\ instances[a].g1 = (IF g1[a] = "unstarted" THEN 0 ELSE 1)
        /\ instances[a].mg3 = (IF mg3[a] = "unstarted" THEN 0 ELSE 1)
        /\ Proceeds(conn[a]) <=> (instances[a].g1 = 1 /\ instances[a].mg3 = 1)
        /\ (main_pc \in {"print", "done"} /\ a \in RangeAddrs) => attempts[a] = 1
        /\ a \notin RangeAddrs => attempts[a] = 0

\* C11 witness: the scan is over; one address raced with a failed and a
\* cancelled probe, another was excluded by its single reachability attempt
C11_Witness ==
    \E a, b \in RangeAddrs :
        /\ main_pc = "done"
        /\ g1[a] = "failed" /\ mg3[a] = "cancelled"
        /\ instances[a] = [g1 |-> 1, mg3 |-> 1]
        /\ conn[b] = "refused" /\ attempts[b] = 1

\* C12: a range with start > end is empty and no error: the iterator yields
\* nothing, no address is admitted and no probe is made, the results stay
\* empty, and (under FairSpec) the scan ends with main returning Ok(()).
C12_ReversedRangeIsEmpty ==
    /\ [](start > end =>
            /\ yielded = <<>> /\ in_progress = {} /\ results = <<>>
            /\ \A a \in Addrs : /\ pc[a] = "pending"
                                /\ attempts[a] = 0
                                /\ instances[a] = [g1 |-> 0, mg3 |-> 0]
            /\ main_pc \in {"start", "print", "done"}
            /\ exit \in {"none", "Ok"})
    /\ (start > end) ~> (main_pc = "done" /\ exit = "Ok" /\ results = <<>>)

\* C12 witness: a scan of a reversed range has ended normally
C12_Witness ==
    /\ start > end
    /\ main_pc = "done" /\ exit = "Ok"
    /\ results = <<>> /\ yielded = <<>>

\* the hexadecimal digits and the upper case of a character, as sets
HexChars == {"0","1","2","3","4","5","6","7","8","9",
             "a","b","c","d","e","f","A","B","C","D","E","F"}

UpperHexChars == {"0","1","2","3","4","5","6","7","8","9","A","B","C","D","E","F"}

ToUpper(c) ==
    CASE c = "a" -> "A" [] c = "b" -> "B" [] c = "c" -> "C"
      [] c = "d" -> "D" [] c = "e" -> "E" [] c = "f" -> "F"
      [] OTHER -> c

\* a text without its ':' separators
IsNoColon(c) == c # ":"
StripSep(s) == SelectSeq(s, IsNoColon)

\* a text without separators and in upper case
Normal(s) == [i \in 1..Len(StripSep(s)) |-> ToUpper(StripSep(s)[i])]

\* a text that is 12 hexadecimal digits once its separators are removed
WellFormed(s) ==
    /\ Len(StripSep(s)) = 12
    /\ \A i \in 1..12 : StripSep(s)[i] \in HexChars

\* the bytes AA:BB:CC:DD:EE:FF
AABBCCDDEEFF == <<170, 187, 204, 221, 238, 255>>

\* C13: filter_addr_g1 returns Ok exactly for a JSON response whose
\* header.code is the integer 200 and whose body.gateway.status.mac is a
\* string that is a well-formed hardware address; the detection then has the
\* probed address, the tag G1 and the address's bytes; all else is an Err.
C13_VariantA ==
    (out.done /\ call.fn = "filter_addr_g1") =>
        LET r == call.resp
            success == /\ r.kind = "json"
                       /\ r.code = "int200"
                       /\ r.mac.t = "string"
                       /\ WellFormed(r.mac.s)
        IN /\ out.res.tag = "Ok" <=> success
           /\ success => out.res.det = [ip |-> call.ip, gateway |-> "G1",
                                        mac |-> AABBCCDDEEFF]
           /\ ~success => out.res.tag = "Err" /\ out.res.det = NoDetection

\* C13 witness: a call that succeeded on a separated mixed-case address
C13_Witness ==
    /\ out.done /\ call.fn = "filter_addr_g1"
    /\ call.resp.mac = Str(MacColons) /\ call.ip = 1
    /\ out.res.tag = "Ok"

\* C15: the text of every Mac is 12 upper-case hexadecimal digits in pairs
\* separated by ':' with no trailing separator, and parsing that text
\* succeeds and gives the Mac back.
C15_RoundTrip ==
    (out.done /\ call.fn = "fmt") =>
        /\ Len(out.text) = 17
        /\ \A i \in 1..Len(out.text) :
              IF i % 3 = 0 THEN out.text[i] = ":" ELSE out.text[i] \in UpperHexChars
        /\ out.mac.ok
        /\ out.mac.bytes = call.x

\* C15 witness: a Mac with digits and letters has been formatted and parsed
C15_Witness ==
    /\ out.done /\ call.fn = "fmt"
    /\ call.x = <<0, 10, 171, 255, 10, 0>>
    /\ out.text = <<"0","0",":","0","A",":","A","B",":","F","F",":","0","A",":","0","0">>

\* C16: Mac::from_str accepts a text exactly when it is 12 hexadecimal digits
\* once its ':' are removed, and two accepted texts that differ only in
\* letter case or separators give the same Mac.
C16_ParseAccepts ==
    (out.done /\ call.fn = "from_str") =>
        /\ out.mac.ok <=> WellFormed(call.s)
        /\ out.mac2.ok <=> WellFormed(call.t)
        /\ ~out.mac.ok => out.mac.bytes = <<>>
        /\ out.mac.ok => /\ Len(out.mac.bytes) = 6
                         /\ \A i \in 1..6 : out.mac.bytes[i] \in 0..255
        /\ (out.mac.ok /\ out.mac2.ok) =>
              (Normal(call.s) = Normal(call.t) <=> out.mac.bytes = out.mac2.bytes)

\* C16 witness: a plain lower-case text and a separated upper-case text of the
\* same address were both accepted with the same value
C16_Witness ==
    /\ out.done /\ call.fn = "from_str"
    /\ call.s = <<"0","1","2","3","4","5","6","7","8","9","a","b">>
    /\ call.t = <<"0","1",":","2","3",":","4","5",":","6","7",":","8","9",":","A","B">>
    /\ out.mac.ok /\ out.mac.bytes = out.mac2.bytes
    /\ out.mac.bytes = <<1, 35, 69, 103, 137, 171>>

\* the text AA:BB:CC:DD:EE:FF
TextAABBCCDDEEFF ==
    <<"A","A",":","B","B",":","C","C",":","D","D",":","E","E",":","F","F">>

\* C14: filter_addr_mg3 returns Ok exactly for a JSON response whose mac is
\* a string that is a well-formed hardware address; the detection then has
\* the probed address, the tag MG3 and the address's bytes; all else is an
\* Err.  In a scan, an address whose /hello answer made the probe succeed
\* has exactly one detection, tagged MG3 and printed AA:BB:CC:DD:EE:FF, and
\* it is the whole result when the range is that single address.
C14_VariantB ==
    /\ (out.done /\ call.fn = "filter_addr_mg3") =>
          LET r == call.resp
              success == /\ r.kind = "json"
                         /\ r.mac.t = "string"
                         /\ WellFormed(r.mac.s)
          IN /\ out.res.tag = "Ok" <=> success
             /\ success => out.res.det = [ip |-> call.ip, gateway |-> "MG3",
                                          mac |-> AABBCCDDEEFF]
             /\ ~success => out.res.tag = "Err" /\ out.res.det = NoDetection
    /\ \A a \in Addrs :
          mg3[a] = "succeeded" =>
              /\ ret[a] = Ok([ip |-> a, gateway |-> "MG3", mac |-> AABBCCDDEEFF])
              /\ Cardinality(DetectionsOf(a)) = 1
              /\ \A i \in DetectionsOf(a) :
                    /\ results[i] = ret[a].det
                    /\ Mac_fmt(results[i].mac) = TextAABBCCDDEEFF
              /\ (start = a /\ end = a + 1) => results = <<ret[a].det>>

\* C14 witness: the scan of a single address ended with the one detection
\* of its Variant B probe
C14_Witness ==
    /\ end = start + 1
    /\ main_pc = "done"
    /\ mg3[start] = "succeeded"
    /\ results = <<[ip |-> start, gateway |-> "MG3", mac |-> AABBCCDDEEFF]>>

\* C17: admission is work-conserving: while the stream is being collected
\* the queue holds N pipelines unless no address is pending, and the step in
\* which a pipeline returns (Ok or Err) admits the next pending address
\* and leaves every other in-flight pipeline where it is.
C17_WorkConserving ==
    /\ [](main_pc = "collect" =>
            /\ InFlight = in_progress
            /\ Cardinality(InFlight) = concurrency \/ ~RangeHasNext(range))
    /\ [][\A a \in Addrs :
            (a \in InFlight /\ pc'[a] = "returned" /\ RangeHasNext(range)) =>
                /\ pc'[range.start] = "tcp"
                /\ range'.start = range.start + 1
                /\ yielded' = Append(yielded, range.start)
                /\ \A b \in InFlight \ {a} : pc'[b] = pc[b]
        ]_vars

\* C17 witness: an address admitted earlier is still racing while a later
\* one has returned and one after that has been admitted
C17_Witness ==
    \E a, b, c \in Addrs :
        /\ a < b /\ b < c
        /\ pc[a] = "select"
        /\ pc[b] = "returned"
        /\ pc[c] = "tcp"
        /\ concurrency = 2

\* the answers of an address on which both probes succeed
GoodG1 == [kind |-> "json", code |-> "int200", mac |-> Str(MacLower)]
GoodMg3 == [kind |-> "json", code |-> "absent", mac |-> Str(MacLower)]

\* the probe of Variant A (B) of such an address answers and wins the race
G1Wins(a) ==
    /\ G1Responds(a, GoodG1)
    /\ ret'[a].tag = "Ok" /\ ret'[a].det.gateway = "G1"

Mg3Wins(a) ==
    /\ Mg3Responds(a, GoodMg3)
    /\ ret'[a].tag = "Ok" /\ ret'[a].det.gateway = "MG3"

\* C18: the race imposes no order on the probes: while both probes of an
\* address are running, either of them can be the next to succeed and win,
\* and the race is won by the probe that succeeds in that step, the other
\* being cancelled.
C18_EitherProbeCanWin ==
    /\ [](\A a \in Addrs :
            (g1[a] = "running" /\ mg3[a] = "running") =>
                /\ ENABLED G1Wins(a)
                /\ ENABLED Mg3Wins(a))
    /\ [][\A a \in Addrs :
            (g1[a] = "running" /\ mg3[a] = "running" /\ RaceState(a)' = "Won") =>
                \/ /\ g1'[a] = "succeeded" /\ mg3'[a] = "cancelled"
                   /\ ret'[a].det.gateway = "G1"
                \/ /\ mg3'[a] = "succeeded" /\ g1'[a] = "cancelled"
                   /\ ret'[a].det.gateway = "MG3"
        ]_vars

\* C18 witness: of two races with both probes answering, one was won by
\* Variant A and the other by Variant B
C18_Witness ==
    \E a, b \in Addrs :
        /\ RaceState(a) = "Won" /\ ret[a].det.gateway = "G1" /\ mg3[a] = "cancelled"
        /\ RaceState(b) = "Won" /\ ret[b].det.gateway = "MG3" /\ g1[b] = "cancelled"

\* C19: the result collection is well-formed and only grows: at most one
\* detection per address; every detection is of an address of the range
\* whose connect succeeded, is the value its pipeline returned, and carries
\* the tag of the probe of that address that succeeded; and a step only
\* appends, leaving the collected detections as they are.
C19_ResultsWellFormed ==
    /\ [](\A i \in 1..Len(results) :
            LET d == results[i]
            IN /\ d.ip \in RangeAddrs
               /\ conn[d.ip] = "connected"
               /\ ret[d.ip] = Ok(d)
               /\ d.gateway \in {"G1", "MG3"}
               /\ d.gateway = "G1" => g1[d.ip] = "succeeded"
               /\ d.gateway = "MG3" => mg3[d.ip] = "succeeded"
               /\ DetectionsOf(d.ip) = {i})
    /\ [][/\ Len(results') >= Len(results)
           /\ Len(results') <= Len(results) + 1
           /\ \A i \in 1..Len(results) : results'[i] = results[i]
        ]_vars

\* C19 witness: two detections of different probes have been collected, the
\* later address first
C19_Witness ==
    /\ Len(results) = 2
    /\ results[1].ip > results[2].ip
    /\ results[1].gateway # results[2].gateway
    /\ main_pc = "done"

====
